---- MODULE Spec2Model ----
(***************************************************************************)
(* Model of bench_core.py: the closed-loop and open-loop load generators,  *)
(* the single-request executor, the latency statistics and the sweep and   *)
(* preset orchestrators.                                                   *)
(*                                                                         *)
(* Scheduling: asyncio runs one callback at a time, so every action below  *)
(* is the code a coroutine executes from one suspension point (await) to   *)
(* the next.  Time is the reading of time.perf_counter() in whole ticks of *)
(* 0.001 s (the sleep tick of the open loop); the code only uses           *)
(* differences of readings taken inside one run, so the origin of the      *)
(* clock is put at the entry of the current run.  Floating-point values    *)
(* that are quotients (throughput, rates, medians, mean error count) are   *)
(* exact rationals [n, d] in lowest terms.                                 *)
(***************************************************************************)
EXTENDS Integers, Sequences, FiniteSets, TLC

\* ------------------------------------------------------------------ bounds
MaxTotal == 2          \* largest request count N of run_closed
MaxConc == 2           \* largest concurrency limit C of run_closed
MaxWarmup == 1         \* largest warmup request count W of run_closed
MaxRepeat == 1         \* largest repeat count of run_closed and run_open
MaxWall == 1           \* the clock stops after this many ticks of a closed-loop run
MaxDuration == 2       \* largest duration D (ticks) of run_open
MaxCap == 1            \* largest concurrency_cap K of run_open
MaxWarmupSec == 1      \* largest warmup_sec (ticks) of run_open
MaxDrain == 0          \* the clock stops this many ticks after an open-loop run's duration
MaxPoints == 2         \* longest list of concurrencies of run_sweep and run_preset
MaxTimeout == 2        \* largest per-request timeout (ticks) of one_request
MaxElapsed == 4        \* one_request's elapsed time is counted up to this many ticks
MaxSamples == 10       \* longest list of latencies given to percentile
MaxLatency == 3        \* largest latency (ticks) in such a list
MaxValues == 4         \* longest list of per-repeat values given to median
MaxRuns == 2           \* largest repeat count where the runs of one call are compared

\* --------------------------------------------------------- program constants
MsPerSec == 1000       \* "* 1000" of _summarize_latencies
TicksPerSec == 1000    \* clock ticks per second: one tick is the 0.001 s of asyncio.sleep
SleepTick == 1         \* the 0.001 s cap of asyncio.sleep, in ticks
InFlightFactor == 4    \* "4 * concurrency_cap"
MinTargetRps == 50     \* "max(50.0, ...)" of run_preset
MaxPresetCap == 2000   \* "min(..., 2000)" of run_preset

\* ------------------------------------------------------------------ helpers
RECURSIVE GCD(_, _)
GCD(a, b) == IF b = 0 THEN a ELSE GCD(b, a % b)

\* the float n/d, kept exact (d > 0, n >= 0)
Rat(n, d) == LET g == GCD(n, d) IN [n |-> n \div g, d |-> d \div g]
RatInt(k) == [n |-> k, d |-> 1]
RatZero == RatInt(0)
RatLess(x, y) == x.n * y.d < y.n * x.d
RatAdd(x, y) == Rat(x.n * y.d + y.n * x.d, x.d * y.d)
RatHalf(x) == Rat(x.n, 2 * x.d)
RatLeq(x, y) == ~RatLess(y, x)
RatSub(x, y) == Rat(x.n * y.d - y.n * x.d, x.d * y.d)     \* for y <= x
RatMul(x, y) == Rat(x.n * y.n, x.d * y.d)
RatMax(x, y) == IF RatLess(x, y) THEN y ELSE x
RatMin(x, y) == IF RatLess(y, x) THEN y ELSE x

Max2(a, b) == IF a >= b THEN a ELSE b
Min2(a, b) == IF a <= b THEN a ELSE b

RECURSIVE SumSeq(_)
SumSeq(s) == IF s = <<>> THEN 0 ELSE Head(s) + SumSeq(Tail(s))

\* sorted(values) / list.sort() on integers and on rationals
SortInts(s) == SortSeq(s, LAMBDA a, b: a < b)
SortRats(s) == SortSeq(s, LAMBDA a, b: RatLess(a, b))

\* -------------------------------------------------------------- statistics
\* mutant of percentile: the index is truncated, not rounded to the nearest
percentileTruncated(sorted_values, q100) ==
    IF sorted_values = <<>> THEN 0
    ELSE LET n == Len(sorted_values)
             index == Max2(0, Min2((q100 * (n - 1)) \div 100, n - 1))
         IN sorted_values[index + 1]

\* percentile(sorted_values, q) with q = q100 / 100:
\* index = max(0, min(int(q * (n - 1) + 0.5), n - 1)); Sequences are 1-based.
percentile(sorted_values, q100) ==
    IF sorted_values = <<>> THEN 0
    ELSE LET n == Len(sorted_values)
             index == Max2(0, Min2((q100 * (n - 1) + 50) \div 100, n - 1))
         IN sorted_values[index + 1]

\* mutant of median: the values are taken in the order given
medianUnsorted(values) ==
    IF values = <<>> THEN RatZero
    ELSE LET length == Len(values)
             middle == length \div 2
         IN IF length % 2 = 1 THEN values[middle + 1]
            ELSE RatHalf(RatAdd(values[middle], values[middle + 1]))

\* median(values) over a list of rationals
median(values) ==
    IF values = <<>> THEN RatZero
    ELSE LET values_sorted == SortRats(values)
             length == Len(values_sorted)
             middle == length \div 2
         IN IF length % 2 = 1 THEN values_sorted[middle + 1]
            ELSE RatHalf(RatAdd(values_sorted[middle], values_sorted[middle + 1]))

\* a latency of t ticks is t / TicksPerSec seconds; "* 1000" gives milliseconds
Ms(t) == Rat(t * MsPerSec, TicksPerSec)

\* mutant of SummarizeLatencies: no "if successful_requests" guard, so that an
\* empty list gives 0/0 fields
SummarizeLatenciesUnguarded(lats) ==
    LET sorted == SortInts(lats)
        successful_requests == Len(sorted)
        undefined == [n |-> 0, d |-> 0]
    IN [successful_requests |-> successful_requests,
        p50_ms |-> IF successful_requests > 0 THEN Ms(percentile(sorted, 50)) ELSE undefined,
        p90_ms |-> IF successful_requests > 0 THEN Ms(percentile(sorted, 90)) ELSE undefined,
        p99_ms |-> IF successful_requests > 0 THEN Ms(percentile(sorted, 99)) ELSE undefined,
        min_ms |-> IF successful_requests > 0 THEN Ms(sorted[1]) ELSE undefined,
        avg_ms |-> IF successful_requests > 0
                   THEN Rat(SumSeq(sorted) * MsPerSec, successful_requests * TicksPerSec)
                   ELSE undefined,
        max_ms |-> IF successful_requests > 0 THEN Ms(sorted[Len(sorted)]) ELSE undefined]

\* _summarize_latencies(latencies): latencies.sort(), which leaves the caller's list
\* sorted, then the percentile fields in ms
SummarizeLatencies(lats) ==
    LET sorted == SortInts(lats)
        successful_requests == Len(sorted)
    IN [successful_requests |-> successful_requests,
        p50_ms |-> IF successful_requests > 0 THEN Ms(percentile(sorted, 50)) ELSE RatZero,
        p90_ms |-> IF successful_requests > 0 THEN Ms(percentile(sorted, 90)) ELSE RatZero,
        p99_ms |-> IF successful_requests > 0 THEN Ms(percentile(sorted, 99)) ELSE RatZero,
        min_ms |-> IF successful_requests > 0 THEN Ms(sorted[1]) ELSE RatZero,
        avg_ms |-> IF successful_requests > 0
                   THEN Rat(SumSeq(sorted) * MsPerSec, successful_requests * TicksPerSec)
                   ELSE RatZero,
        max_ms |-> IF successful_requests > 0 THEN Ms(sorted[Len(sorted)]) ELSE RatZero]

\* the dictionary _closed_once and _open_once return:
\* {**stats, "errors": error_count, "throughput": ..., "wall": wall_time}
RunResult(lats, errs, wall_time) ==
    LET stats == SummarizeLatencies(lats)
    IN [successful_requests |-> stats.successful_requests,
        p50_ms |-> stats.p50_ms, p90_ms |-> stats.p90_ms, p99_ms |-> stats.p99_ms,
        min_ms |-> stats.min_ms, avg_ms |-> stats.avg_ms, max_ms |-> stats.max_ms,
        errors |-> errs,
        throughput |-> IF wall_time > 0
                       THEN Rat(stats.successful_requests * TicksPerSec, wall_time)
                       ELSE RatZero,
        wall |-> wall_time]

\* ------------------------------------------------------------------- state
VARIABLES
    args,               \* the entry point called (bench.py main) and its arguments
    status,             \* of that call: "running", "returned" or "raised"
    ret,                \* its return value
    preset_pc,          \* run_preset frame: position
    rows,               \*   the rows written to the CSV file so far
    best,               \*   (best_concurrency, calibrated_rps)
    open_targets_rps,   \*   open_targets_rps
    concurrency_cap,    \*   concurrency_cap
    target_i,           \*   number of open-loop targets done
    sweep_pc,           \* run_sweep frame: position
    concurrencies,      \*   the list it iterates over
    sweep_i,            \*   number of list elements consumed
    results,            \*   results: list of (concurrency, summary)
    runner,             \* run_closed / run_open frame: its arguments
    runner_pc,          \*   position
    runner_i,           \*   loop index i of "for i in range(repeat)"
    run_summaries,      \*   run_summaries
    runner_ret,         \*   the summary it returns
    once,               \* _closed_once / _open_once frame: its arguments
    once_pc,            \*   position
    once_ret,           \*   the dictionary it returns
    sem_value,          \*   concurrency_semaphore._value
    sem_waiters,        \*   concurrency_semaphore._waiters (task ids, FIFO)
    task,               \*   the perform_request tasks created by this run, in creation order
    latencies,          \*   latencies (in completion order)
    error_count,        \*   error_count
    start_time,         \*   start_time
    next_scheduled_time, \*  next_scheduled_time (open loop)
    in_flight_tasks,    \*   in_flight_tasks (open loop)
    wake_time,          \*   when the pending asyncio.sleep expires (open loop)
    gathered,           \*   the tasks handed to the final asyncio.gather (open loop)
    now,                \* the clock: time.perf_counter()
    req,                \* one_request seen step by step: its frame, connection and peer
    fun                 \* percentile or median called on its own: arguments and result

inVars == <<args, req, fun>>
entryVars == <<inVars, status, ret>>
presetVars == <<preset_pc, rows, best, open_targets_rps, concurrency_cap, target_i>>
sweepVars == <<sweep_pc, concurrencies, sweep_i, results>>
runnerVars == <<runner, runner_pc, runner_i, run_summaries, runner_ret>>
runVars == <<sem_value, sem_waiters, task, latencies, error_count, start_time>>
openVars == <<next_scheduled_time, in_flight_tasks, wake_time, gathered>>
onceVars == <<once, once_pc, once_ret, runVars, openVars, now>>
callerVars == <<entryVars, presetVars, sweepVars, runnerVars>>
vars == <<callerVars, onceVars>>

None == [fn |-> "none"]

\* -------------------------------------------------------- request builder
\* A URL as build_http_get sees it:
\*   parsed  whether urlparse(url) returns: it raises ValueError for a bracketed host
\*           that is not well formed ("http://[/", "http://[zz]/") and for a netloc
\*           that is not valid under NFKC normalization
\*   scheme  parsed_url.scheme, in lower case, "" when the URL has none
\*   port    the text after "host:": NoPort when there is none, NotANumber when it is
\*           not made of decimal digits, otherwise its value
\*   ascii   whether path, query and netloc are all ASCII
NoPort == -1
NotANumber == -2
MaxPort == 65535
\* http://host:8080/
HttpUrl == [parsed |-> TRUE, scheme |-> "http", port |-> 8080, ascii |-> TRUE]
\* https://host/
HttpsUrl == [parsed |-> TRUE, scheme |-> "https", port |-> NoPort, ascii |-> TRUE]
Urls ==
    {HttpUrl, HttpsUrl,
     \* //host/
     [parsed |-> TRUE, scheme |-> "", port |-> NoPort, ascii |-> TRUE],
     \* http://host:65536/
     [parsed |-> TRUE, scheme |-> "http", port |-> MaxPort + 1, ascii |-> TRUE],
     \* http://host:abc/
     [parsed |-> TRUE, scheme |-> "http", port |-> NotANumber, ascii |-> TRUE],
     \* //host:65536/
     [parsed |-> TRUE, scheme |-> "", port |-> MaxPort + 1, ascii |-> TRUE],
     \* http://host/e-acute
     [parsed |-> TRUE, scheme |-> "http", port |-> NoPort, ascii |-> FALSE],
     \* https://host:abc/e-acute
     [parsed |-> TRUE, scheme |-> "https", port |-> NotANumber, ascii |-> FALSE],
     \* http://[/
     [parsed |-> FALSE, scheme |-> "http", port |-> NoPort, ascii |-> TRUE],
     \* //[zz]/
     [parsed |-> FALSE, scheme |-> "", port |-> NoPort, ascii |-> TRUE]}

\* build_http_get(url) raises
\*   ValueError out of urlparse(url) when the URL cannot be parsed,
\*   ValueError when the scheme is present and is not "http",
\*   ValueError out of parsed_url.port when the port is not a number in 0..65535,
\*   UnicodeEncodeError out of .encode("ascii") when the request has a non-ASCII character
BuildHttpGetRaises(url) ==
    \/ ~url.parsed
    \/ url.scheme # "" /\ url.scheme # "http"
    \/ url.port = NotANumber
    \/ url.port > MaxPort
    \/ ~url.ascii

\* ------------------------------------------------------------- semaphore
\* asyncio.Semaphore as used by "async with concurrency_semaphore".
\* mutant of SemLocked: the permit count is compared with the wrong bound
SemLockedBelowZero == sem_value < 0 \/ sem_waiters # <<>>

\* locked(): no permit free, or somebody is queued
SemLocked == sem_value = 0 \/ sem_waiters # <<>>

\* _wake_up_next() on waiters w, value v and tasks t: the first waiter whose
\* future is not done takes a permit and is scheduled to resume
FirstWaiting(w, t) ==
    IF \E k \in 1..Len(w) : t[w[k]].st = "waiting"
    THEN w[CHOOSE k \in 1..Len(w) :
             /\ t[w[k]].st = "waiting"
             /\ \A j \in 1..(k - 1) : t[w[j]].st # "waiting"]
    ELSE 0

\* mutant of WakeUpNext: nobody is woken
WakeUpNextNobody(v, w, t) == [value |-> v, task |-> t]

WakeUpNext(v, w, t) ==
    LET f == FirstWaiting(w, t)
    IN IF f = 0 THEN [value |-> v, task |-> t]
       ELSE [value |-> v - 1, task |-> [t EXCEPT ![f].st = "granted"]]

RemoveWaiter(w, i) == SelectSeq(w, LAMBDA x : x # i)

\* --------------------------------------------------------- perform_request
\* st: position of the task; start: one_request's start_time; calls: how often the
\* task has entered one_request
NewTask == [st |-> "new", start |-> 0, calls |-> 0]

\* tasks and callbacks run only while the run's main coroutine is suspended in an await
MainSuspended == once_pc \in {"gather", "sleep", "drain"}

\* entering one_request: start_time = time.perf_counter(), then the connection is opened
BeginRequest(t, i) == [t EXCEPT ![i].st = "executing", ![i].start = now, ![i].calls = @ + 1]

\* "async with concurrency_semaphore" on entry: acquire()
Acquire(i) ==
    IF ~SemLocked
    THEN /\ sem_value' = sem_value - 1
         /\ task' = BeginRequest(task, i)
         /\ UNCHANGED sem_waiters
    ELSE /\ sem_waiters' = Append(sem_waiters, i)
         /\ task' = [task EXCEPT ![i].st = "waiting"]
         /\ UNCHANGED sem_value

\* first step of a task (tasks start in creation order): acquire the semaphore;
\* with a free permit go straight into one_request, otherwise queue up
TaskStart(i) ==
    /\ MainSuspended
    /\ i \in DOMAIN task /\ task[i].st = "new"
    /\ \A j \in 1..(i - 1) : task[j].st # "new"
    /\ Acquire(i)
    /\ UNCHANGED <<callerVars, once, once_pc, once_ret, latencies, error_count,
                   start_time, openVars, now>>

\* a waiter whose future was set resumes inside acquire(): it leaves the queue,
\* passes a spare permit on, and goes into one_request
TaskResume(i) ==
    /\ MainSuspended
    /\ i \in DOMAIN task /\ task[i].st = "granted"
    /\ LET w == RemoveWaiter(sem_waiters, i)
           r == IF sem_value > 0 THEN WakeUpNext(sem_value, w, task)
                ELSE [value |-> sem_value, task |-> task]
       IN /\ sem_waiters' = w
          /\ sem_value' = r.value
          /\ task' = BeginRequest(r.task, i)
    /\ UNCHANGED <<callerVars, once, once_pc, once_ret, latencies, error_count,
                   start_time, openVars, now>>

\* one_request returns: -1 on any failure, else perf_counter() - start_time.
\* perform_request counts it: error_count += 1 or latencies.append(duration)
RecordOutcome(duration) ==
    IF duration < 0
    THEN /\ error_count' = error_count + 1
         /\ UNCHANGED latencies
    ELSE /\ latencies' = Append(latencies, duration)
         /\ UNCHANGED error_count

\* "async with concurrency_semaphore" on exit: release()
Release(t) == WakeUpNext(sem_value + 1, sem_waiters, t)

\* mutant of TaskFinish: a failed request ends without releasing its permit
TaskFinishLeakOnFailure(i, ok) ==
    /\ MainSuspended
    /\ i \in DOMAIN task /\ task[i].st = "executing"
    /\ RecordOutcome(IF ok THEN now - task[i].start ELSE -1)
    /\ LET r == IF ok THEN Release([task EXCEPT ![i].st = "done"])
                ELSE [value |-> sem_value, task |-> [task EXCEPT ![i].st = "done"]]
       IN /\ sem_value' = r.value
          /\ task' = r.task
    /\ UNCHANGED <<callerVars, once, once_pc, once_ret, sem_waiters, start_time, openVars, now>>

\* the last step of a task: the outcome is counted, the permit released, the task ends
TaskFinish(i, ok) ==
    /\ MainSuspended
    /\ i \in DOMAIN task /\ task[i].st = "executing"
    /\ RecordOutcome(IF ok THEN now - task[i].start ELSE -1)
    /\ LET r == Release([task EXCEPT ![i].st = "done"])
       IN /\ sem_value' = r.value
          /\ task' = r.task
    /\ UNCHANGED <<callerVars, once, once_pc, once_ret, sem_waiters, start_time, openVars, now>>

\* ------------------------------------------------------------ _closed_once
\* entry of _closed_once up to "await asyncio.gather(...)"
ClosedOnceEnter ==
    /\ once_pc = "call" /\ once.fn = "_closed_once"
    /\ IF BuildHttpGetRaises(once.url)
       THEN /\ once_pc' = "raised"
            /\ UNCHANGED <<runVars, now>>
       ELSE /\ once_pc' = "gather"
            /\ sem_value' = once.concurrency
            /\ sem_waiters' = <<>>
            /\ latencies' = <<>>
            /\ error_count' = 0
            /\ now' = 0
            /\ start_time' = 0
            /\ task' = [i \in 1..once.total_requests |-> NewTask]
    /\ UNCHANGED <<callerVars, once, once_ret, openVars>>

\* mutant of AllDone: the wait ends with the first task that is done
AllDoneAny(S) == S = {} \/ \E i \in S : task[i].st = "done"

AllDone(S) == \A i \in S : task[i].st = "done"

\* mutant of ClosedOnceReturn: gather is left as soon as every request has started
ClosedOnceReturnEarly ==
    /\ once_pc = "gather" /\ once.fn = "_closed_once"
    /\ \A i \in DOMAIN task : task[i].st # "new"
    /\ once_ret' = RunResult(latencies, error_count, now - start_time)
    /\ latencies' = SortInts(latencies)
    /\ once_pc' = "ret"
    /\ UNCHANGED <<callerVars, once, sem_value, sem_waiters, task, error_count, start_time,
                   openVars, now>>

\* gather has collected every task: wall time, the statistics (_summarize_latencies
\* sorts the run's list in place), the returned dictionary
ClosedOnceReturn ==
    /\ once_pc = "gather"
    /\ AllDone(DOMAIN task)
    /\ once_ret' = RunResult(latencies, error_count, now - start_time)
    /\ latencies' = SortInts(latencies)
    /\ once_pc' = "ret"
    /\ UNCHANGED <<callerVars, once, sem_value, sem_waiters, task, error_count, start_time,
                   openVars, now>>

\* -------------------------------------------------------------- _open_once
\* schedule_interval_seconds = 1.0 / max(target_rps, 1e-9), in ticks (target_rps > 1e-9)
ScheduleInterval(target_rps) == Rat(TicksPerSec * target_rps.d, target_rps.n)

\* entry of _open_once up to the dispatch loop
OpenOnceEnter ==
    /\ once_pc = "call" /\ once.fn = "_open_once"
    /\ IF BuildHttpGetRaises(once.url)
       THEN /\ once_pc' = "raised"
            /\ UNCHANGED <<runVars, openVars, now>>
       ELSE /\ once_pc' = "loop"
            /\ sem_value' = once.concurrency_cap
            /\ sem_waiters' = <<>>
            /\ in_flight_tasks' = {}
            /\ latencies' = <<>>
            /\ error_count' = 0
            /\ now' = 0
            /\ start_time' = 0
            /\ next_scheduled_time' = RatInt(0)
            /\ task' = <<>>
            /\ UNCHANGED <<wake_time, gathered>>
    /\ UNCHANGED <<callerVars, once, once_ret>>

DurationOver == now - start_time >= once.duration_sec

\* mutant of MayDispatch: the in-flight limit is left out
MayDispatchNoLimit == RatLeq(next_scheduled_time, RatInt(now))

MayDispatch ==
    /\ RatLeq(next_scheduled_time, RatInt(now))
    /\ Cardinality(in_flight_tasks) < InFlightFactor * once.concurrency_cap

\* mutant of OpenLoopBreak: the statistics are computed without the final gather
OpenLoopBreakNoDrain ==
    /\ once_pc = "loop"
    /\ DurationOver
    /\ once_pc' = "ret"
    /\ once_ret' = RunResult(latencies, error_count, now - start_time)
    /\ latencies' = SortInts(latencies)
    /\ UNCHANGED <<callerVars, once, sem_value, sem_waiters, task, error_count, start_time,
                   openVars, now>>

\* loop iteration, "break" branch: with tasks in flight wait for them in gather,
\* otherwise go on to the statistics at once
OpenLoopBreak ==
    /\ once_pc = "loop"
    /\ DurationOver
    /\ IF in_flight_tasks # {}
       THEN /\ once_pc' = "drain"
            /\ gathered' = in_flight_tasks
            /\ UNCHANGED <<once_ret, latencies>>
       ELSE /\ once_pc' = "ret"
            /\ once_ret' = RunResult(latencies, error_count, now - start_time)
            /\ latencies' = SortInts(latencies)
            /\ UNCHANGED gathered
    /\ UNCHANGED <<callerVars, once, sem_value, sem_waiters, task, error_count, start_time,
                   next_scheduled_time, in_flight_tasks, wake_time, now>>

\* mutant of OpenLoopDispatch: the schedule restarts from the current time, so that
\* arrivals that fell behind are skipped
OpenLoopDispatchFromNow ==
    /\ once_pc = "loop"
    /\ ~DurationOver
    /\ MayDispatch
    /\ task' = Append(task, NewTask)
    /\ in_flight_tasks' = in_flight_tasks \cup {Len(task) + 1}
    /\ next_scheduled_time' = RatAdd(RatInt(now), ScheduleInterval(once.target_rps))
    /\ UNCHANGED <<callerVars, once, once_pc, once_ret, sem_value, sem_waiters, latencies,
                   error_count, start_time, wake_time, gathered, now>>

\* loop iteration, dispatch branch: create_task(perform_request()), remember it,
\* advance the schedule
OpenLoopDispatch ==
    /\ once_pc = "loop"
    /\ ~DurationOver
    /\ MayDispatch
    /\ task' = Append(task, NewTask)
    /\ in_flight_tasks' = in_flight_tasks \cup {Len(task) + 1}
    /\ next_scheduled_time' = RatAdd(next_scheduled_time, ScheduleInterval(once.target_rps))
    /\ UNCHANGED <<callerVars, once, once_pc, once_ret, sem_value, sem_waiters, latencies,
                   error_count, start_time, wake_time, gathered, now>>

\* loop iteration, else branch:
\* await asyncio.sleep(min(0.001, max(0.0, next_scheduled_time - now)))
SleepDelay ==
    IF RatLess(RatInt(now), next_scheduled_time)
    THEN RatMin(RatInt(SleepTick), RatSub(next_scheduled_time, RatInt(now)))
    ELSE RatZero

OpenLoopSleep ==
    /\ once_pc = "loop"
    /\ ~DurationOver
    /\ ~MayDispatch
    /\ once_pc' = "sleep"
    /\ wake_time' = RatAdd(RatInt(now), SleepDelay)
    /\ UNCHANGED <<callerVars, once, once_ret, runVars, next_scheduled_time,
                   in_flight_tasks, gathered, now>>

\* the sleep has expired and the loop goes round
OpenWake ==
    /\ once_pc = "sleep"
    /\ RatLeq(wake_time, RatInt(now))
    /\ once_pc' = "loop"
    /\ UNCHANGED <<callerVars, once, once_ret, runVars, openVars, now>>

\* task.add_done_callback(in_flight_tasks.discard): runs after the task has ended
Discard(i) ==
    /\ MainSuspended
    /\ i \in in_flight_tasks
    /\ task[i].st = "done"
    /\ in_flight_tasks' = in_flight_tasks \ {i}
    /\ UNCHANGED <<callerVars, once, once_pc, once_ret, runVars, next_scheduled_time,
                   wake_time, gathered, now>>

\* the final gather has collected its tasks: wall time, statistics, the dictionary
OpenOnceReturn ==
    /\ once_pc = "drain"
    /\ AllDone(gathered)
    /\ once_ret' = RunResult(latencies, error_count, now - start_time)
    /\ latencies' = SortInts(latencies)
    /\ once_pc' = "ret"
    /\ UNCHANGED <<callerVars, once, sem_value, sem_waiters, task, error_count, start_time,
                   openVars, now>>

\* ------------------------------------------------------------------- clock
ClockLimit ==
    IF once.fn = "_closed_once" THEN MaxWall ELSE once.duration_sec + MaxDrain

\* the clock advances while a run is under way
Tick ==
    /\ once_pc \in {"gather", "loop", "sleep", "drain"}
    /\ now < ClockLimit
    /\ now' = now + 1
    /\ UNCHANGED <<callerVars, once, once_pc, once_ret, runVars, openVars>>

\* --------------------------------------------------- run_closed / run_open
\* the frame of a _once call is gone once its caller has taken the result
OnceIdle ==
    /\ once' = None
    /\ once_pc' = "idle"
    /\ once_ret' = None
    /\ sem_value' = 0
    /\ sem_waiters' = <<>>
    /\ task' = <<>>
    /\ latencies' = <<>>
    /\ error_count' = 0
    /\ start_time' = 0
    /\ next_scheduled_time' = RatZero
    /\ in_flight_tasks' = {}
    /\ wake_time' = RatZero
    /\ gathered' = {}
    /\ now' = 0

\* await _closed_once(url, amount, concurrency, ...) or
\* await _open_once(url, rps, amount, concurrency, ...)
CallOnce(amount) ==
    /\ once' = IF runner.fn = "run_closed"
               THEN [fn |-> "_closed_once", url |-> runner.url,
                     total_requests |-> amount, concurrency |-> runner.concurrency]
               ELSE [fn |-> "_open_once", url |-> runner.url, target_rps |-> runner.rps,
                     duration_sec |-> amount, concurrency_cap |-> runner.concurrency]
    /\ once_pc' = "call"
    /\ UNCHANGED <<once_ret, runVars, openVars, now>>

\* entry of run_closed / run_open: the warmup run, if any
RunnerEnter ==
    /\ runner_pc = "call"
    /\ IF runner.warmup > 0
       THEN /\ runner_pc' = "warmup"
            /\ CallOnce(runner.warmup)
            /\ UNCHANGED <<runner_i, run_summaries>>
       ELSE /\ runner_pc' = "for"
            /\ runner_i' = 0
            /\ run_summaries' = <<>>
            /\ UNCHANGED onceVars
    /\ UNCHANGED <<entryVars, presetVars, sweepVars, runner, runner_ret>>

\* mutant of RunnerWarmupDone: the warmup run's result is kept as a first summary
RunnerWarmupKept ==
    /\ runner_pc = "warmup" /\ once_pc = "ret"
    /\ runner_pc' = "for"
    /\ runner_i' = 0
    /\ run_summaries' = <<once_ret>>
    /\ OnceIdle
    /\ UNCHANGED <<entryVars, presetVars, sweepVars, runner, runner_ret>>

\* the warmup run returned: its result is dropped
RunnerWarmupDone ==
    /\ runner_pc = "warmup" /\ once_pc = "ret"
    /\ runner_pc' = "for"
    /\ runner_i' = 0
    /\ run_summaries' = <<>>
    /\ OnceIdle
    /\ UNCHANGED <<entryVars, presetVars, sweepVars, runner, runner_ret>>

Field(seq, f) == [k \in 1..Len(seq) |-> seq[k][f]]

\* summary = {median of throughput, p50, p90, p99; mean of errors}
MedianSummary(summaries, repeat) ==
    [throughput |-> median(Field(summaries, "throughput")),
     p50_ms |-> median(Field(summaries, "p50_ms")),
     p90_ms |-> median(Field(summaries, "p90_ms")),
     p99_ms |-> median(Field(summaries, "p99_ms")),
     errors |-> Rat(SumSeq(Field(summaries, "errors")), Max2(repeat, 1))]

\* "for i in range(repeat)": start the next measured run, or build the summary
RunnerFor ==
    /\ runner_pc = "for"
    /\ IF runner_i < runner.repeat
       THEN /\ runner_pc' = "measured"
            /\ CallOnce(runner.amount)
            /\ UNCHANGED runner_ret
       ELSE /\ runner_pc' = "ret"
            /\ runner_ret' = MedianSummary(run_summaries, runner.repeat)
            /\ UNCHANGED onceVars
    /\ UNCHANGED <<entryVars, presetVars, sweepVars, runner, runner_i, run_summaries>>

\* run_summaries.append(await _closed_once(...))
RunnerCollect ==
    /\ runner_pc = "measured" /\ once_pc = "ret"
    /\ run_summaries' = Append(run_summaries, once_ret)
    /\ runner_i' = runner_i + 1
    /\ runner_pc' = "for"
    /\ OnceIdle
    /\ UNCHANGED <<entryVars, presetVars, sweepVars, runner, runner_ret>>

\* the ValueError of build_http_get leaves run_closed / run_open
RunnerRaise ==
    /\ runner_pc \in {"warmup", "measured"} /\ once_pc = "raised"
    /\ runner_pc' = "raised"
    /\ OnceIdle
    /\ UNCHANGED <<entryVars, presetVars, sweepVars, runner, runner_i, run_summaries,
                   runner_ret>>

RunnerIdle ==
    /\ runner' = None
    /\ runner_pc' = "idle"
    /\ runner_i' = 0
    /\ run_summaries' = <<>>
    /\ runner_ret' = None

\* the arguments of run_closed(url, total, concurrency, timeout, warmup, repeat, quiet)
ClosedCall(url, total, concurrency, warmup, repeat) ==
    [fn |-> "run_closed", url |-> url, amount |-> total, concurrency |-> concurrency,
     warmup |-> warmup, repeat |-> repeat]

\* the arguments of run_open(url, rps, duration, concurrency, timeout, warmup_sec, repeat, quiet)
OpenCall(url, rps, duration, concurrency, warmup_sec, repeat) ==
    [fn |-> "run_open", url |-> url, rps |-> rps, amount |-> duration,
     concurrency |-> concurrency, warmup |-> warmup_sec, repeat |-> repeat]

\* ---------------------------------------------------------------- run_sweep
\* "for concurrency in concurrencies": the next run_closed, or return results
SweepFor ==
    /\ sweep_pc = "for"
    /\ IF sweep_i < Len(concurrencies)
       THEN /\ sweep_pc' = "await"
            /\ runner' = ClosedCall(args.url, args.total, concurrencies[sweep_i + 1],
                                    args.warmup, args.repeat)
            /\ runner_pc' = "call"
            /\ UNCHANGED <<runner_i, run_summaries, runner_ret>>
       ELSE /\ sweep_pc' = "ret"
            /\ UNCHANGED runnerVars
    /\ UNCHANGED <<entryVars, presetVars, concurrencies, sweep_i, results, onceVars>>

\* mutant of SweepCollect: the new result is put in front
SweepCollectInFront ==
    /\ sweep_pc = "await" /\ runner_pc = "ret"
    /\ results' = <<[concurrency |-> concurrencies[sweep_i + 1], summary |-> runner_ret]>>
                   \o results
    /\ sweep_i' = sweep_i + 1
    /\ sweep_pc' = "for"
    /\ RunnerIdle
    /\ UNCHANGED <<entryVars, presetVars, concurrencies, onceVars>>

\* results.append((concurrency, summary))
SweepCollect ==
    /\ sweep_pc = "await" /\ runner_pc = "ret"
    /\ results' = Append(results, [concurrency |-> concurrencies[sweep_i + 1],
                                   summary |-> runner_ret])
    /\ sweep_i' = sweep_i + 1
    /\ sweep_pc' = "for"
    /\ RunnerIdle
    /\ UNCHANGED <<entryVars, presetVars, concurrencies, onceVars>>

SweepRaise ==
    /\ sweep_pc = "await" /\ runner_pc = "raised"
    /\ sweep_pc' = "raised"
    /\ RunnerIdle
    /\ UNCHANGED <<entryVars, presetVars, concurrencies, sweep_i, results, onceVars>>

\* --------------------------------------------------------------- run_preset
\* mutant of BestOf: of several elements of maximal key the last one is taken
BestOfLast(res) ==
    res[CHOOSE k \in 1..Len(res) :
            /\ \A j \in 1..Len(res) : RatLeq(res[j].summary.throughput, res[k].summary.throughput)
            /\ \A j \in (k + 1)..Len(res) :
                   RatLess(res[j].summary.throughput, res[k].summary.throughput)]

\* max(results, key=lambda x: x[1]["throughput"]): the first element of maximal key
BestOf(res) ==
    res[CHOOSE k \in 1..Len(res) :
            /\ \A j \in 1..Len(res) : RatLeq(res[j].summary.throughput, res[k].summary.throughput)
            /\ \A j \in 1..(k - 1) :
                   RatLess(res[j].summary.throughput, res[k].summary.throughput)]

\* mutant of OpenTargets: the targets are not kept at or above 50
OpenTargetsNoFloor(calibrated_rps) ==
    <<RatMul(Rat(5, 10), calibrated_rps),
      RatMul(Rat(9, 10), calibrated_rps),
      RatMul(Rat(11, 10), calibrated_rps)>>

\* open_targets_rps
OpenTargets(calibrated_rps) ==
    <<RatMax(RatInt(MinTargetRps), RatMul(Rat(5, 10), calibrated_rps)),
      RatMax(RatInt(MinTargetRps), RatMul(Rat(9, 10), calibrated_rps)),
      RatMax(RatInt(MinTargetRps), RatMul(Rat(11, 10), calibrated_rps))>>

\* mutant of PresetCap: the cap is not limited to 2000
PresetCapUnlimited(best_concurrency) == (25 * best_concurrency) \div 10

\* concurrency_cap = min(int(2.5 * best_concurrency), 2000)
PresetCap(best_concurrency) == Min2((25 * best_concurrency) \div 10, MaxPresetCap)

SweepRow(r) == [phase |-> "closed_sweep", concurrency |-> r.concurrency,
                open_target_rps |-> None, summary |-> r.summary]

OpenRow(cap, target, summary) == [phase |-> "open_loop", concurrency |-> cap,
                                  open_target_rps |-> target, summary |-> summary]

\* run_sweep returned: the sweep rows are written, the best point is picked and
\* the open-loop targets and cap derived from it (max() of no results raises)
PresetCalibrate ==
    /\ preset_pc = "sweep" /\ sweep_pc = "ret"
    /\ rows' = [k \in 1..Len(results) |-> SweepRow(results[k])]
    /\ IF results = <<>>
       THEN /\ preset_pc' = "raised"
            /\ UNCHANGED <<best, open_targets_rps, concurrency_cap>>
       ELSE /\ preset_pc' = "open_for"
            /\ best' = [concurrency |-> BestOf(results).concurrency,
                        calibrated_rps |-> BestOf(results).summary.throughput]
            /\ open_targets_rps' = OpenTargets(BestOf(results).summary.throughput)
            /\ concurrency_cap' = PresetCap(BestOf(results).concurrency)
    /\ target_i' = 0
    /\ sweep_pc' = "idle"
    /\ UNCHANGED <<entryVars, concurrencies, sweep_i, results, runnerVars, onceVars>>

\* "for target in open_targets_rps": the next run_open, or return
PresetOpenFor ==
    /\ preset_pc = "open_for"
    /\ IF target_i < Len(open_targets_rps)
       THEN /\ preset_pc' = "open_await"
            /\ runner' = OpenCall(args.url, open_targets_rps[target_i + 1], args.duration,
                                  concurrency_cap, args.warmup_sec, args.repeat)
            /\ runner_pc' = "call"
            /\ UNCHANGED <<runner_i, run_summaries, runner_ret>>
       ELSE /\ preset_pc' = "ret"
            /\ UNCHANGED runnerVars
    /\ UNCHANGED <<entryVars, rows, best, open_targets_rps, concurrency_cap, target_i,
                   sweepVars, onceVars>>

\* mutant of PresetOpenCollect: the open-loop row is put in front of the report
PresetOpenCollectInFront ==
    /\ preset_pc = "open_await" /\ runner_pc = "ret"
    /\ rows' = <<OpenRow(concurrency_cap, open_targets_rps[target_i + 1], runner_ret)>> \o rows
    /\ target_i' = target_i + 1
    /\ preset_pc' = "open_for"
    /\ RunnerIdle
    /\ UNCHANGED <<entryVars, best, open_targets_rps, concurrency_cap, sweepVars, onceVars>>

\* run_open returned: its row is written
PresetOpenCollect ==
    /\ preset_pc = "open_await" /\ runner_pc = "ret"
    /\ rows' = Append(rows, OpenRow(concurrency_cap, open_targets_rps[target_i + 1], runner_ret))
    /\ target_i' = target_i + 1
    /\ preset_pc' = "open_for"
    /\ RunnerIdle
    /\ UNCHANGED <<entryVars, best, open_targets_rps, concurrency_cap, sweepVars, onceVars>>

\* an exception of run_sweep or run_open leaves run_preset
PresetRaise ==
    /\ \/ /\ preset_pc = "sweep" /\ sweep_pc = "raised"
          /\ sweep_pc' = "idle"
          /\ UNCHANGED runnerVars
       \/ /\ preset_pc = "open_await" /\ runner_pc = "raised"
          /\ RunnerIdle
          /\ UNCHANGED sweep_pc
    /\ preset_pc' = "raised"
    /\ UNCHANGED <<entryVars, rows, best, open_targets_rps, concurrency_cap, target_i,
                   concurrencies, sweep_i, results, onceVars>>

\* ------------------------------------------------------------ entry points
\* bench.py main: asyncio.run(...) of the chosen entry point ends
Finish(pc, value) ==
    \/ /\ pc = "ret"
       /\ status' = "returned"
       /\ ret' = value
       /\ UNCHANGED inVars
    \/ /\ pc = "raised"
       /\ status' = "raised"
       /\ UNCHANGED <<inVars, ret>>

MainRunnerDone ==
    /\ status = "running" /\ args.fn \in {"run_closed", "run_open"}
    /\ Finish(runner_pc, runner_ret)
    /\ RunnerIdle
    /\ UNCHANGED <<presetVars, sweepVars, onceVars>>

MainSweepDone ==
    /\ status = "running" /\ args.fn = "run_sweep"
    /\ Finish(sweep_pc, results)
    /\ sweep_pc' = "idle"
    /\ UNCHANGED <<presetVars, concurrencies, sweep_i, results, runnerVars, onceVars>>

MainPresetDone ==
    /\ status = "running" /\ args.fn = "run_preset"
    /\ Finish(preset_pc, rows)
    /\ preset_pc' = "idle"
    /\ UNCHANGED <<rows, best, open_targets_rps, concurrency_cap, target_i, sweepVars,
                   runnerVars, onceVars>>

\* --------------------------------------------------------------- one_request
\* one_request(host, port, request_bytes, timeout) step by step, against a peer that
\* may accept or refuse, read or not read, send chunks, close or never close.
\*   pc      position: "start", "connect", "drain", "read", "wait_closed", "returned"
\*   timer   ticks the pending asyncio.wait_for has run, or NoTimer without a wait_for
\*   elapsed time.perf_counter() - start_time
\*   conn    the client's connection: "none", "opening", "open", "closed"
\*   result  what one_request returned: -1, or the latency
NoTimer == -1

\* everything but the request under study
reqOther == <<args, fun, status, ret, presetVars, sweepVars, runnerVars, onceVars>>

ReqArgs == [timeout : 1..MaxTimeout, peer_closes : BOOLEAN]

ReqInit(a) ==
    [fn |-> "one_request", timeout |-> a.timeout, peer_closes |-> a.peer_closes,
     pc |-> "start", timer |-> NoTimer, elapsed |-> 0, conn |-> "none", result |-> 0]

\* "except Exception: return -1.0"
ReqFailure(r, c) == [r EXCEPT !.pc = "returned", !.timer = NoTimer, !.conn = c, !.result = -1]

\* the pending wait_for has run for its whole timeout: its timer is due. The event loop
\* runs the timer after the I/O callbacks of the same iteration, so a result of the
\* awaited operation that arrives with the due timer, or before the loop gets to it,
\* is still delivered; the clock does not wait for the loop either.
ReqExpired == req.timer # NoTimer /\ req.timer >= req.timeout

\* start_time = perf_counter(); await wait_for(open_connection(host, port), timeout)
ReqBegin ==
    /\ req.pc = "start"
    /\ req' = [req EXCEPT !.pc = "connect", !.timer = 0, !.conn = "opening"]
    /\ UNCHANGED reqOther

\* the connection is made: writer.write(request_bytes); await writer.drain().
\* drain() returns at once unless the transport has paused writing (paused = TRUE);
\* then the read loop starts: await wait_for(reader.read(65536), timeout)
ReqConnected(paused) ==
    /\ req.pc = "connect"
    /\ req' = IF paused
              THEN [req EXCEPT !.pc = "drain", !.timer = NoTimer, !.conn = "open"]
              ELSE [req EXCEPT !.pc = "read", !.timer = 0, !.conn = "open"]
    /\ UNCHANGED reqOther

\* open_connection raises (refused, unreachable)
ReqConnectError ==
    /\ req.pc = "connect"
    /\ req' = ReqFailure(req, "none")
    /\ UNCHANGED reqOther

\* asyncio.wait_for gives up after timeout: TimeoutError, caught, -1.
\* A pending open_connection is cancelled; an open connection is left as it is: the
\* except branch has no writer.close().
ReqTimeout ==
    /\ req.pc \in {"connect", "read"}
    /\ ReqExpired
    /\ req' = ReqFailure(req, IF req.pc = "connect" THEN "none" ELSE req.conn)
    /\ UNCHANGED reqOther

\* the peer has read enough for drain() to return: on to the read loop
ReqDrained ==
    /\ req.pc = "drain"
    /\ req' = [req EXCEPT !.pc = "read", !.timer = 0]
    /\ UNCHANGED reqOther

\* drain() raises: the connection is lost, its transport has closed the socket
ReqDrainError ==
    /\ req.pc = "drain"
    /\ req' = ReqFailure(req, "closed")
    /\ UNCHANGED reqOther

\* reader.read returns a non-empty chunk: the loop goes round, a new wait_for starts
ReqReadChunk ==
    /\ req.pc = "read"
    /\ req' = [req EXCEPT !.timer = 0]
    /\ UNCHANGED reqOther

\* reader.read returns b"" (the peer closed): break; writer.close(); await wait_closed()
ReqReadEOF ==
    /\ req.pc = "read"
    /\ req.peer_closes
    /\ req' = [req EXCEPT !.pc = "wait_closed", !.timer = NoTimer, !.conn = "closed"]
    /\ UNCHANGED reqOther

\* reader.read raises: the connection is lost (reset), its transport has closed the
\* socket
ReqReadError ==
    /\ req.pc = "read"
    /\ req' = ReqFailure(req, "closed")
    /\ UNCHANGED reqOther

\* wait_closed() returns or raises (ignored): return perf_counter() - start_time
ReqReturn ==
    /\ req.pc = "wait_closed"
    /\ req' = [req EXCEPT !.pc = "returned", !.result = req.elapsed]
    /\ UNCHANGED reqOther

\* one_request has returned from "except Exception" without writer.close(): nothing
\* in the program refers to the writer any more. Whether and when the connection is
\* closed is up to the interpreter: a finalizer of the stream writer closes it after
\* the return, or it stays open for as long as the event loop lives.
ReqWriterDropped ==
    /\ req.pc = "returned"
    /\ req.conn = "open"
    /\ req' = [req EXCEPT !.conn = "closed"]
    /\ UNCHANGED reqOther

\* a tick of the clock while the request is under way
ReqTick ==
    /\ req.pc \in {"connect", "drain", "read", "wait_closed"}
    /\ req' = [req EXCEPT !.elapsed = Min2(@ + 1, MaxElapsed),
                          !.timer = IF @ = NoTimer THEN NoTimer ELSE Min2(@ + 1, MaxElapsed)]
    /\ UNCHANGED reqOther

\* ---------------------------------------------------------------- Init
RECURSIVE SeqsUpTo(_, _)
SeqsUpTo(S, n) ==
    IF n = 0 THEN {<<>>}
    ELSE LET shorter == SeqsUpTo(S, n - 1)
         IN shorter \cup {Append(q, x) : q \in shorter, x \in S}

\* target rates of run_open (requests per second)
RpsChoices == {RatInt(500), RatInt(1000), RatInt(4000)}

\* concurrency values of the points of a sweep
SweepConcurrencies == {1, 2}

ClosedArgs ==
    [fn : {"run_closed"}, url : Urls, total : 0..MaxTotal, concurrency : 1..MaxConc,
     warmup : 0..MaxWarmup, repeat : 0..MaxRepeat]

OpenArgs ==
    [fn : {"run_open"}, url : {HttpUrl, HttpsUrl}, rps : RpsChoices, duration : 0..MaxDuration,
     concurrency : 1..MaxCap, warmup_sec : 0..MaxWarmupSec, repeat : 0..MaxRepeat]

SweepArgs ==
    [fn : {"run_sweep"}, url : {HttpUrl, HttpsUrl}, total : {1, 2},
     concurrencies : SeqsUpTo(SweepConcurrencies, MaxPoints),
     warmup : {0, 1}, repeat : {0, 1}]

\* concurrency values of the points of a preset's sweep: one whose cap 2.5 * c is not
\* whole, one whose cap is beyond 2000
PresetConcurrencies == {1, 801}

PresetArgs ==
    [fn : {"run_preset"}, url : {HttpUrl, HttpsUrl}, total : {2},
     concurrencies : SeqsUpTo(PresetConcurrencies, MaxPoints),
     warmup : {1}, repeat : {1}, duration : {1}, warmup_sec : {0}]

InitWith(A) ==
    /\ args \in A
    /\ status = "running"
    /\ ret = None
    /\ preset_pc = IF args.fn = "run_preset" THEN "sweep" ELSE "idle"
    /\ rows = <<>>
    /\ best = None
    /\ open_targets_rps = <<>>
    /\ concurrency_cap = 0
    /\ target_i = 0
    /\ sweep_pc = IF args.fn \in {"run_sweep", "run_preset"} THEN "for" ELSE "idle"
    /\ concurrencies = IF args.fn \in {"run_sweep", "run_preset"} THEN args.concurrencies
                       ELSE <<>>
    /\ sweep_i = 0
    /\ results = <<>>
    /\ runner = CASE args.fn = "run_closed" ->
                       ClosedCall(args.url, args.total, args.concurrency,
                                  args.warmup, args.repeat)
                  [] args.fn = "run_open" ->
                       OpenCall(args.url, args.rps, args.duration, args.concurrency,
                                args.warmup_sec, args.repeat)
                  [] OTHER -> None
    /\ runner_pc = IF args.fn \in {"run_closed", "run_open"} THEN "call" ELSE "idle"
    /\ runner_i = 0
    /\ run_summaries = <<>>
    /\ runner_ret = None
    /\ once = None
    /\ once_pc = "idle"
    /\ once_ret = None
    /\ sem_value = 0
    /\ sem_waiters = <<>>
    /\ task = <<>>
    /\ latencies = <<>>
    /\ error_count = 0
    /\ start_time = 0
    /\ next_scheduled_time = RatZero
    /\ in_flight_tasks = {}
    /\ wake_time = RatZero
    /\ gathered = {}
    /\ now = 0

\* the entry points work on whole requests: one_request is not followed step by step
Init == InitWith(ClosedArgs \cup OpenArgs \cup SweepArgs \cup PresetArgs) /\ req = None /\ fun = None

TaskSteps ==
    \/ \E i \in 1..Len(task) : TaskStart(i)
    \/ \E i \in 1..Len(task) : TaskResume(i)
    \/ \E i \in 1..Len(task), ok \in BOOLEAN : TaskFinish(i, ok)
    \/ Tick

RunnerSteps ==
    \/ RunnerEnter
    \/ RunnerWarmupDone
    \/ RunnerFor
    \/ RunnerCollect
    \/ RunnerRaise

ClosedSteps ==
    \/ ClosedOnceEnter
    \/ ClosedOnceReturn

OpenSteps ==
    \/ OpenOnceEnter
    \/ OpenLoopBreak
    \/ OpenLoopDispatch
    \/ OpenLoopSleep
    \/ OpenWake
    \/ \E i \in 1..Len(task) : Discard(i)
    \/ OpenOnceReturn

SweepSteps ==
    \/ SweepFor
    \/ SweepCollect
    \/ SweepRaise

PresetSteps ==
    \/ PresetCalibrate
    \/ PresetOpenFor
    \/ PresetOpenCollect
    \/ PresetRaise
    \/ MainPresetDone

Next ==
    \/ TaskSteps
    \/ RunnerSteps
    \/ ClosedSteps
    \/ OpenSteps
    \/ SweepSteps
    \/ PresetSteps
    \/ MainRunnerDone
    \/ MainSweepDone

\* the program: any entry point, any arguments within the bounds
Spec == Init /\ [][Next]_vars

\* run_closed alone
NextClosed == TaskSteps \/ RunnerSteps \/ ClosedSteps \/ MainRunnerDone
SpecClosed == InitWith(ClosedArgs) /\ req = None /\ fun = None /\ [][NextClosed]_vars

\* run_open alone
NextOpen == TaskSteps \/ RunnerSteps \/ OpenSteps \/ MainRunnerDone
SpecOpen == InitWith(OpenArgs) /\ req = None /\ fun = None /\ [][NextOpen]_vars

\* one_request alone, step by step
ReqSteps ==
    \/ ReqBegin
    \/ \E paused \in BOOLEAN : ReqConnected(paused)
    \/ ReqConnectError
    \/ ReqTimeout
    \/ ReqDrained
    \/ ReqDrainError
    \/ ReqReadChunk
    \/ ReqReadEOF
    \/ ReqReadError
    \/ ReqReturn
    \/ ReqWriterDropped
    \/ ReqTick

InitReq ==
    /\ InitWith({None})
    /\ fun = None
    /\ \E a \in ReqArgs : req = ReqInit(a)

NextReq == ReqSteps
SpecReq == InitReq /\ [][NextReq]_vars

\* the event loop runs every callback that is ready, fires every timer that is due,
\* and the clock advances; what the peer does is up to the peer, the end of
\* wait_closed() included (close() first flushes what is still buffered)
ReqFairness ==
    /\ WF_vars(ReqBegin)
    /\ WF_vars(ReqTimeout)
    /\ WF_vars(ReqTick)
FairSpecReq == SpecReq /\ ReqFairness

\* run_sweep alone
NextSweep == TaskSteps \/ RunnerSteps \/ ClosedSteps \/ SweepSteps \/ MainSweepDone
SpecSweep == InitWith(SweepArgs) /\ req = None /\ fun = None /\ [][NextSweep]_vars

\* run_preset alone
NextPreset == TaskSteps \/ RunnerSteps \/ ClosedSteps \/ OpenSteps \/ SweepSteps \/ PresetSteps
SpecPreset == InitWith(PresetArgs) /\ req = None /\ fun = None /\ [][NextPreset]_vars

\* run_closed and run_open with one or more measured runs, with and without warmup;
\* the warmup amount differs from the measured amount
RepeatArgs ==
    [fn : {"run_closed"}, url : {HttpUrl, HttpsUrl}, total : {2}, concurrency : {1, 2},
     warmup : {0, 1}, repeat : 1..MaxRuns]
    \cup [fn : {"run_open"}, url : {HttpUrl, HttpsUrl}, rps : {RatInt(4000)}, duration : {1},
          concurrency : {1}, warmup_sec : {0, 1}, repeat : 1..MaxRuns]

NextRepeat == TaskSteps \/ RunnerSteps \/ ClosedSteps \/ OpenSteps \/ MainRunnerDone
SpecRepeat == InitWith(RepeatArgs) /\ req = None /\ fun = None /\ [][NextRepeat]_vars

\* run_closed and run_open, any arguments within the bounds
NextRuns == TaskSteps \/ RunnerSteps \/ ClosedSteps \/ OpenSteps \/ MainRunnerDone
SpecRuns == InitWith(ClosedArgs \cup OpenArgs) /\ req = None /\ fun = None /\ [][NextRuns]_vars

\* every entry point that makes several runs: repeats, sweep points, preset phases
SpecSequence ==
    InitWith(RepeatArgs \cup SweepArgs \cup PresetArgs) /\ req = None /\ fun = None
        /\ [][Next]_vars

\* The event loop runs every task that is ready and every callback that is due, the
\* clock advances, and every request inside one_request eventually returns an outcome.
TaskRuns ==
    \E i \in 1..Len(task) : TaskStart(i) \/ TaskResume(i) \/ \E ok \in BOOLEAN : TaskFinish(i, ok)

RunsFairness ==
    /\ WF_vars(TaskRuns)
    /\ WF_vars(Tick)
    /\ WF_vars(RunnerSteps)
    /\ WF_vars(ClosedSteps)
    /\ WF_vars(OpenSteps)
\* one measured run of each kind, long enough for an open-loop run to reach its
\* in-flight limit
FairArgs ==
    [fn : {"run_closed"}, url : {HttpUrl, HttpsUrl}, total : {2}, concurrency : {1, 2},
     warmup : {0, 1}, repeat : {1}]
    \cup [fn : {"run_open"}, url : {HttpUrl, HttpsUrl}, rps : {RatInt(4000)},
          duration : {2}, concurrency : {1}, warmup_sec : {0}, repeat : {1}]

FairSpecRuns ==
    /\ InitWith(FairArgs) /\ req = None /\ fun = None
    /\ [][NextRuns]_vars
    /\ RunsFairness

\* percentile and median on their own, as _summarize_latencies and run_closed /
\* run_open call them
funOther == <<args, req, status, ret, presetVars, sweepVars, runnerVars, onceVars>>

\* the sorted lists of up to n latencies
RECURSIVE SortedUpTo(_)
SortedUpTo(n) ==
    IF n = 0 THEN {<<>>}
    ELSE LET shorter == SortedUpTo(n - 1)
         IN shorter \cup
            {Append(p[1], p[2]) :
                p \in {c \in shorter \X (1..MaxLatency) :
                          c[1] = <<>> \/ c[1][Len(c[1])] <= c[2]}}

\* sorted lists with repeated values, and the lists 1, 2, ..., n of distinct values
PercentileLists ==
    SortedUpTo(MaxSamples) \cup {[i \in 1..n |-> i] : n \in 0..MaxSamples}

\* q in hundredths: the three of _summarize_latencies, and the ends of the range
Quantiles == {0, 50, 90, 99, 100}

MedianValues == {RatZero, RatInt(1), RatInt(2), Rat(7, 2)}

FunCalls ==
    [fn : {"percentile"}, sorted_values : PercentileLists, q100 : Quantiles,
     pc : {"call"}, result : {0}]
    \cup [fn : {"median"}, values : SeqsUpTo(MedianValues, MaxValues),
          pc : {"call"}, result : {RatZero}]

PercentileCall ==
    /\ fun.fn = "percentile" /\ fun.pc = "call"
    /\ fun' = [fun EXCEPT !.pc = "ret", !.result = percentile(fun.sorted_values, fun.q100)]
    /\ UNCHANGED funOther

MedianCall ==
    /\ fun.fn = "median" /\ fun.pc = "call"
    /\ fun' = [fun EXCEPT !.pc = "ret", !.result = median(fun.values)]
    /\ UNCHANGED funOther

InitStats == InitWith({None}) /\ req = None /\ fun \in FunCalls
NextStats == PercentileCall \/ MedianCall
SpecStats == InitStats /\ [][NextStats]_vars

\* run_preset from the return of run_sweep to the derived open-loop plan, for sweep
\* results of any throughput (the calibration is a function of the results alone)
ThroughputChoices == {RatZero, RatInt(60), RatInt(100), Rat(2000, 3)}
CalibrateConcurrencies == {1, 2, 801}

SweepSummary(throughput) ==
    [throughput |-> throughput, p50_ms |-> RatZero, p90_ms |-> RatZero, p99_ms |-> RatZero,
     errors |-> RatZero]

SweepResults ==
    SeqsUpTo([concurrency : CalibrateConcurrencies,
              summary : {SweepSummary(t) : t \in ThroughputChoices}], MaxPoints)

InitCalibrate ==
    /\ results \in SweepResults
    /\ concurrencies = [k \in 1..Len(results) |-> results[k].concurrency]
    /\ args = [fn |-> "run_preset", url |-> HttpUrl, total |-> 2,
               concurrencies |-> concurrencies, warmup |-> 1, repeat |-> 1,
               duration |-> 1, warmup_sec |-> 0]
    /\ status = "running"
    /\ ret = None
    /\ preset_pc = "sweep"
    /\ rows = <<>>
    /\ best = None
    /\ open_targets_rps = <<>>
    /\ concurrency_cap = 0
    /\ target_i = 0
    /\ sweep_pc = "ret"
    /\ sweep_i = Len(results)
    /\ runner = None
    /\ runner_pc = "idle"
    /\ runner_i = 0
    /\ run_summaries = <<>>
    /\ runner_ret = None
    /\ once = None
    /\ once_pc = "idle"
    /\ once_ret = None
    /\ sem_value = 0
    /\ sem_waiters = <<>>
    /\ task = <<>>
    /\ latencies = <<>>
    /\ error_count = 0
    /\ start_time = 0
    /\ next_scheduled_time = RatZero
    /\ in_flight_tasks = {}
    /\ wake_time = RatZero
    /\ gathered = {}
    /\ now = 0
    /\ req = None /\ fun = None

NextCalibrate == PresetCalibrate
SpecCalibrate == InitCalibrate /\ [][NextCalibrate]_vars

\* ====================================================== properties checked
Executing == {i \in DOMAIN task : task[i].st = "executing"}
Outstanding == {i \in DOMAIN task : task[i].st # "done"}
Finished == {i \in DOMAIN task : task[i].st = "done"}
InClosedRun == once.fn = "_closed_once" /\ once_pc \in {"gather", "ret"}
InOpenRun == once.fn = "_open_once" /\ once_pc \in {"loop", "sleep", "drain", "ret"}

\* C1: in a closed-loop run with concurrency limit C, at most C requests are inside
\* one_request in every reachable state.
C1_ClosedInFlightAtMostC ==
    InClosedRun => Cardinality(Executing) <= once.concurrency

\* C1 witness: more requests than permits, every permit in use, a request queued.
C1_Witness ==
    /\ InClosedRun
    /\ once.total_requests > once.concurrency
    /\ Cardinality(Executing) = once.concurrency
    /\ \E i \in DOMAIN task : task[i].st = "waiting"

\* C2: in an open-loop run with cap K, at most 4*K requests are dispatched and not
\* completed, and at most K are inside one_request, in every reachable state.
C2_OpenOutstandingAndExecutingBounded ==
    InOpenRun =>
        /\ Cardinality(Outstanding) <= InFlightFactor * once.concurrency_cap
        /\ Cardinality(Executing) <= once.concurrency_cap

\* C2 witness: 4*K requests outstanding, K of them executing, and the next arrival
\* is due and within the duration: only the limit holds it back.
C2_Witness ==
    /\ InOpenRun
    /\ once_pc = "loop"
    /\ ~DurationOver
    /\ RatLeq(next_scheduled_time, RatInt(now))
    /\ Cardinality(Outstanding) = InFlightFactor * once.concurrency_cap
    /\ Cardinality(Executing) = once.concurrency_cap

\* C3: a closed-loop run of N requests has exactly N tasks, each enters one_request at
\* most once and, by the time the summary is computed, exactly once; the summary is
\* computed only when all N are done; successful_requests + errors = N; every finished
\* request adds either one error or one latency sample, never both.
C3_Counts ==
    InClosedRun =>
        /\ Len(task) = once.total_requests
        /\ \A i \in DOMAIN task :
               /\ task[i].calls <= 1
               /\ (task[i].calls = 1) = (task[i].st \in {"executing", "done"})
        /\ error_count + Len(latencies) = Cardinality(Finished)
        /\ once_pc = "ret" =>
               /\ \A i \in DOMAIN task : task[i].st = "done" /\ task[i].calls = 1
               /\ once_ret.successful_requests + once_ret.errors = once.total_requests
               /\ once_ret.errors = error_count
               /\ once_ret.successful_requests = Len(latencies)
               /\ (error_count = 0 => once_ret.successful_requests = once.total_requests)

C3_OneSamplePerOutcome ==
    (InClosedRun /\ Cardinality(Finished') = Cardinality(Finished) + 1) =>
        \/ error_count' = error_count + 1 /\ latencies' = latencies
        \/ error_count' = error_count /\ Len(latencies') = Len(latencies) + 1

C3_ClosedRunIssuesEachRequestOnce == []C3_Counts /\ [][C3_OneSamplePerOutcome]_vars

\* C3 witness: a run of two requests has returned with one failure and one success.
C3_Witness ==
    /\ InClosedRun /\ once_pc = "ret"
    /\ once.total_requests = 2
    /\ once_ret.errors = 1
    /\ once_ret.successful_requests = 1

\* C4: when an open-loop run computes its summary no dispatched request is still
\* outstanding, and successful_requests + errors is the number dispatched.
C4_OpenSummaryAfterEveryRequest ==
    (once.fn = "_open_once" /\ once_pc = "ret") =>
        /\ Outstanding = {}
        /\ once_ret.successful_requests + once_ret.errors = Len(task)

\* C4 witness: a run has returned after waiting in the final gather for requests that
\* were still in flight when the duration ended, one of which failed.
C4_Witness ==
    /\ once.fn = "_open_once" /\ once_pc = "ret"
    /\ gathered # {}
    /\ Len(task) >= 2
    /\ once_ret.errors >= 1
    /\ once_ret.successful_requests >= 1

\* C5: at every suspension point of a request (connection establishment, write
\* completion, each read) a timeout is pending, so that a stalled operation ends in
\* Failure.
C5_EverySuspensionPointTimed ==
    (req.fn = "one_request" /\ req.pc \in {"connect", "drain", "read"}) => req.timer # NoTimer

\* C6: a request to a peer that never closes the connection eventually returns Failure.
C6_NeverClosingPeerEventuallyFails ==
    (req.fn = "one_request" /\ req.pc = "read" /\ ~req.peer_closes)
        ~> (req.pc = "returned" /\ req.result = -1)

\* C7: request failures never leave a run: a run's dictionary with no success has zero
\* percentiles and zero throughput; with a valid URL and a non-empty sweep nothing is
\* raised, the sweep yields a result for every concurrency, and run_preset goes on to
\* its three open-loop runs.
C7_FailuresNeverPropagate ==
    /\ (once_pc = "ret" /\ once_ret.successful_requests = 0) =>
           /\ once_ret.p50_ms = RatZero
           /\ once_ret.p90_ms = RatZero
           /\ once_ret.p99_ms = RatZero
           /\ once_ret.throughput = RatZero
    /\ (~BuildHttpGetRaises(args.url) /\ args.concurrencies # <<>>) =>
           /\ status # "raised"
           /\ "raised" \notin {once_pc, runner_pc, sweep_pc, preset_pc}
           /\ preset_pc \in {"open_for", "open_await", "ret"} => Len(results) = Len(concurrencies)
           /\ status = "returned" => Len(ret) = Len(concurrencies) + 3

\* C7 witness: run_preset has returned its rows although every request of the sweep and
\* of the open-loop runs failed.
C7_Witness ==
    /\ args.fn = "run_preset"
    /\ status = "returned"
    /\ Len(concurrencies) = 2
    /\ Len(ret) = 5
    /\ \A k \in 1..Len(ret) :
           /\ ret[k].summary.throughput = RatZero
           /\ RatLess(RatZero, ret[k].summary.errors)

\* C8: run_closed and run_open never return a summary when repeat = 0.
C8_RepeatZeroRejected ==
    (args.fn \in {"run_closed", "run_open"} /\ status = "returned") => args.repeat >= 1

\* C9: with a URL whose scheme is present and not "http" the call never returns
\* normally and no request is ever issued.
C9_BadSchemeAlwaysFails ==
    (args.fn # "none" /\ args.url.scheme # "" /\ args.url.scheme # "http") =>
        /\ status # "returned"
        /\ task = <<>>

\* C10: run_sweep returns one (concurrency, summary) pair per input element in input
\* order; a result once appended never changes; every point starts from a fresh
\* semaphore and fresh counters, so its error mean never exceeds its own request count.
C10_InOrder ==
    /\ Len(results) = sweep_i
    /\ \A k \in 1..Len(results) :
           /\ results[k].concurrency = concurrencies[k]
           /\ RatLeq(results[k].summary.errors, RatInt(args.total))
    /\ (args.fn = "run_sweep" /\ status = "returned") =>
           /\ Len(ret) = Len(args.concurrencies)
           /\ \A k \in 1..Len(ret) : ret[k].concurrency = args.concurrencies[k]
    /\ (once_pc = "gather" /\ \A i \in DOMAIN task : task[i].st = "new") =>
           /\ sem_value = once.concurrency
           /\ sem_waiters = <<>>
           /\ error_count = 0
           /\ latencies = <<>>

C10_EarlierResultsKept ==
    /\ Len(results') >= Len(results)
    /\ \A k \in 1..Len(results) : results'[k] = results[k]

C10_SweepOneResultPerPointInOrder == []C10_InOrder /\ [][C10_EarlierResultsKept]_vars

\* C10 witness: a sweep over a list that is not ascending has returned two results
\* that differ: the first point's request failed, the second point's succeeded.
C10_Witness ==
    /\ args.fn = "run_sweep"
    /\ status = "returned"
    /\ Len(ret) = 2
    /\ ret[1].concurrency >= ret[2].concurrency
    /\ RatLess(RatZero, ret[1].summary.errors)
    /\ ret[2].summary.errors = RatZero

\* C11: the best point chosen by run_preset is a sweep point of maximal median
\* throughput, the first such point in sweep order, and the calibrated rate is that
\* point's throughput.
C11_BestIsFirstMaximum ==
    preset_pc = "open_for" =>
        \E k \in 1..Len(results) :
            /\ best.concurrency = results[k].concurrency
            /\ best.calibrated_rps = results[k].summary.throughput
            /\ \A j \in 1..Len(results) :
                   RatLeq(results[j].summary.throughput, results[k].summary.throughput)
            /\ \A j \in 1..(k - 1) :
                   RatLess(results[j].summary.throughput, results[k].summary.throughput)

\* C11 witness: two sweep points of different concurrency share the maximal, non-zero
\* throughput and the first one has been chosen.
C11_Witness ==
    /\ preset_pc = "open_for"
    /\ Len(results) = 2
    /\ results[1].summary.throughput = results[2].summary.throughput
    /\ RatLess(RatZero, results[1].summary.throughput)
    /\ results[1].concurrency # results[2].concurrency
    /\ best.concurrency = results[1].concurrency

\* C12: run_preset derives exactly three target rates, in the order max(50, 0.5*T),
\* max(50, 0.9*T), max(50, 1.1*T) for the best throughput T; each is at least 50,
\* also for T = 0.
C12_ThreeTargetsAtLeastFifty ==
    preset_pc = "open_for" =>
        /\ Len(open_targets_rps) = 3
        /\ \A i \in 1..3 :
               LET T == best.calibrated_rps
                   t == open_targets_rps[i]
                   tenths == <<5, 9, 11>>[i]
                   \* t compared with tenths/10 * T, and with 50, by cross-multiplication
                   scaled == tenths * T.n * t.d
                   target == 10 * T.d * t.n
               IN /\ t.d > 0
                  /\ t.n >= 50 * t.d
                  /\ target >= scaled
                  /\ (target = scaled \/ t.n = 50 * t.d)

\* C12 witness: for T = 60 the first target is raised to 50 and the other two are
\* 0.9*T and 1.1*T.
C12_Witness ==
    /\ preset_pc = "open_for"
    /\ best.calibrated_rps = RatInt(60)
    /\ open_targets_rps = <<RatInt(50), RatInt(54), RatInt(66)>>

\* C13 as stated: the cap passed to the open-loop runs equals min(2.5 * best
\* concurrency, 2000) exactly, odd best concurrencies included.
C13_CapIsExactProduct ==
    (args.fn = "run_preset" /\ runner.fn = "run_open") =>
        10 * runner.concurrency = Min2(25 * best.concurrency, 10 * MaxPresetCap)

\* C13 amended: all three open-loop runs get the same cap, the whole part of
\* 2.5 * best concurrency limited to 2000; it never exceeds 2000.
C13_CapValue ==
    (args.fn = "run_preset" /\ preset_pc \in {"open_for", "open_await", "ret"}) =>
        /\ concurrency_cap <= MaxPresetCap
        /\ 10 * concurrency_cap <= 25 * best.concurrency
        /\ (concurrency_cap = MaxPresetCap \/ 25 * best.concurrency < 10 * (concurrency_cap + 1))
        /\ runner.fn = "run_open" => runner.concurrency = concurrency_cap
        /\ once.fn = "_open_once" => once.concurrency_cap = concurrency_cap
        /\ \A k \in (Len(results) + 1)..Len(rows) : rows[k].concurrency = concurrency_cap

C13_CapKept ==
    (args.fn = "run_preset" /\ preset_pc \in {"open_for", "open_await"}) =>
        concurrency_cap' = concurrency_cap /\ best' = best

C13_SameFlooredCapForAllOpenRuns == []C13_CapValue /\ [][C13_CapKept]_vars

\* C13 witness: run_preset has returned after three open-loop runs that all ran with
\* cap 2000, the best concurrency being 801 (2.5 * 801 = 2002.5).
C13_Witness ==
    /\ args.fn = "run_preset"
    /\ status = "returned"
    /\ best.concurrency \in PresetConcurrencies
    /\ 25 * best.concurrency > 10 * MaxPresetCap
    /\ Len(ret) = Len(results) + 3
    /\ \A k \in (Len(results) + 1)..Len(ret) : ret[k].concurrency = MaxPresetCap

\* C14: for a sorted list L of n >= 1 latencies and q in {0.5, 0.9, 0.99}, percentile
\* returns the element of L at the index nearest to q*(n-1) (a half rounds up), which
\* lies in 0..n-1; for n = 10, p90 is L[8]; for the empty list it returns 0 for any q.
C14_PercentileIsNearestRank ==
    (fun.fn = "percentile" /\ fun.pc = "ret") =>
        LET L == fun.sorted_values
            n == Len(L)
            x100 == fun.q100 * (n - 1)
            nearest == {i \in 0..(n - 1) : 100 * i - 50 <= x100 /\ x100 < 100 * i + 50}
        IN IF n = 0 THEN fun.result = 0
           ELSE fun.q100 \in {50, 90, 99} =>
                    /\ Cardinality(nearest) = 1
                    /\ \A i \in nearest : fun.result = L[i + 1]
                    /\ (n = 10 /\ fun.q100 = 90) => fun.result = L[8 + 1]

\* C14 witness: p90 of the ten distinct latencies 1, ..., 10 has been computed and is
\* the ninth of them.
C14_Witness ==
    /\ fun.fn = "percentile" /\ fun.pc = "ret"
    /\ fun.sorted_values = [i \in 1..10 |-> i]
    /\ fun.q100 = 90
    /\ fun.result = 9

\* the k-th smallest (k from 1) of a list of rationals, whatever its order
OrderStatistic(values, k) ==
    CHOOSE x \in {values[i] : i \in DOMAIN values} :
        /\ Cardinality({i \in DOMAIN values : RatLess(values[i], x)}) < k
        /\ Cardinality({i \in DOMAIN values : RatLeq(values[i], x)}) >= k

\* C15: median of a non-empty list, in any order, is the middle element of the sorted
\* values for an odd count and the average of the two middle ones for an even count.
C15_MedianOfRepeats ==
    (fun.fn = "median" /\ fun.pc = "ret" /\ fun.values # <<>>) =>
        LET n == Len(fun.values)
        IN IF n % 2 = 1
           THEN fun.result = OrderStatistic(fun.values, (n + 1) \div 2)
           ELSE LET lower == OrderStatistic(fun.values, n \div 2)
                    upper == OrderStatistic(fun.values, n \div 2 + 1)
                IN /\ fun.result.d > 0
                   /\ 2 * fun.result.n * lower.d * upper.d
                          = fun.result.d * (lower.n * upper.d + upper.n * lower.d)

\* C15 witness: the median of four values given out of order has been computed and is
\* none of the four.
C15_Witness ==
    /\ fun.fn = "median" /\ fun.pc = "ret"
    /\ Len(fun.values) = 4
    /\ RatLess(fun.values[2], fun.values[1])
    /\ RatLess(fun.values[4], fun.values[3])
    /\ fun.result \notin {fun.values[i] : i \in DOMAIN fun.values}

\* the median of a non-empty list of rationals, by rank
MiddleOf(values) ==
    LET n == Len(values)
    IN IF n % 2 = 1 THEN OrderStatistic(values, (n + 1) \div 2)
       ELSE RatHalf(RatAdd(OrderStatistic(values, n \div 2),
                           OrderStatistic(values, n \div 2 + 1)))

MeasuredCall == args.fn \in {"run_closed", "run_open"} /\ args.repeat >= 1

\* C16: the summary of run_closed / run_open with repeat r >= 1 is built from exactly
\* r measured runs: throughput, p50, p90, p99 are the medians over the r runs, errors
\* is the mean of their failure counts; the warmup run is in no field.
C16_Summary ==
    (MeasuredCall /\ runner_pc = "ret") =>
        /\ Len(run_summaries) = args.repeat
        /\ \A f \in {"throughput", "p50_ms", "p90_ms", "p99_ms"} :
               runner_ret[f] = MiddleOf(Field(run_summaries, f))
        /\ runner_ret.errors.d > 0
        /\ runner_ret.errors.n * args.repeat
               = SumSeq(Field(run_summaries, "errors")) * runner_ret.errors.d
        /\ args.fn = "run_closed" =>
               \A k \in 1..Len(run_summaries) :
                   run_summaries[k].successful_requests + run_summaries[k].errors = args.total

C16_OnlyMeasuredRunsKept ==
    MeasuredCall =>
        /\ runner_pc \in {"call", "warmup"} => run_summaries' = <<>>
        /\ Len(run_summaries') > Len(run_summaries) =>
               /\ runner_pc = "measured"
               /\ run_summaries' = Append(run_summaries, once_ret)

C16_SummaryFromMeasuredRunsOnly == []C16_Summary /\ [][C16_OnlyMeasuredRunsKept]_vars

\* C16 witness: a call with a warmup run and two measured runs of different throughput
\* has built its summary: the median is between the two and the error mean is 1/2.
C16_Witness ==
    /\ MeasuredCall /\ runner_pc = "ret"
    /\ args.repeat = 2
    /\ runner.warmup > 0
    /\ RatLess(run_summaries[1].throughput, runner_ret.throughput)
    /\ RatLess(runner_ret.throughput, run_summaries[2].throughput)
    /\ runner_ret.errors = Rat(1, 2)

InRun == InClosedRun \/ InOpenRun
RunLimit == IF once.fn = "_closed_once" THEN once.concurrency ELSE once.concurrency_cap
Granted == {i \in DOMAIN task : task[i].st = "granted"}
PermitsHeld == RunLimit - sem_value

\* C17 as stated: the number of permits held always equals the number of requests
\* executing.
C17_HeldEqualsExecuting ==
    InRun => PermitsHeld = Cardinality(Executing)

\* C17 amended: the permits held are those of the requests executing and of the
\* requests that release() has handed a permit and that have not resumed yet; every
\* recorded outcome, success or failure, gives one permit back (to the semaphore or to
\* the next waiter); when the run finishes all permits are free and nobody waits.
C17_Permits ==
    InRun =>
        /\ sem_value >= 0
        /\ PermitsHeld = Cardinality(Executing) + Cardinality(Granted)
        /\ once_pc = "ret" =>
               /\ sem_value = RunLimit
               /\ sem_waiters = <<>>

C17_OutcomeReturnsPermit ==
    (InRun /\ (error_count' = error_count + 1 \/ Len(latencies') = Len(latencies) + 1)) =>
        /\ Cardinality(Executing') = Cardinality(Executing) - 1
        /\ sem_value' + Cardinality(Granted') = sem_value + Cardinality(Granted) + 1

C17_NoSlotLeaks == []C17_Permits /\ [][C17_OutcomeReturnsPermit]_vars

\* C17 witness: a run with more requests than permits has finished, some request
\* failed, and all permits are free.
C17_Witness ==
    /\ InRun /\ once_pc = "ret"
    /\ Len(task) > RunLimit
    /\ error_count >= 1
    /\ Len(latencies) >= 1
    /\ sem_value = RunLimit

\* C18: runs never overlap. No request is in flight outside the one current run; while
\* a request is in flight the current run, the repeat index, the sweep point and the
\* open-loop target stay the same; a run starts only when no run is under way; a call
\* of run_closed / run_open starts only when none is under way; run_preset starts its
\* open-loop runs only after the whole sweep has returned.
C18_OneRunAtATime ==
    /\ once_pc \in {"idle", "call", "raised", "ret"} => Outstanding = {}
    /\ once_pc # "idle" => runner_pc \in {"warmup", "measured"}
    /\ runner_pc = "warmup" => run_summaries = <<>> /\ runner_i = 0
    /\ runner_pc # "idle" =>
           \/ args.fn \in {"run_closed", "run_open"}
           \/ sweep_pc = "await"
           \/ preset_pc = "open_await"
    /\ sweep_pc = "await" => Len(results) = sweep_i /\ sweep_i < Len(concurrencies)
    /\ (args.fn = "run_preset" /\ runner.fn = "run_open") =>
           /\ sweep_pc = "idle"
           /\ Len(results) = Len(args.concurrencies)
           /\ Len(rows) = Len(results) + target_i

C18_RunsInSequence ==
    /\ Outstanding # {} =>
           /\ once' = once
           /\ runner' = runner /\ runner_i' = runner_i /\ run_summaries' = run_summaries
           /\ sweep_i' = sweep_i /\ target_i' = target_i
    /\ (once' # once /\ once' # None) => (once = None /\ task = <<>>)
    /\ (runner' # runner /\ runner' # None) => (runner = None /\ once = None)
    /\ runner_i' \in {runner_i, runner_i + 1, 0}
    /\ sweep_i' \in {sweep_i, sweep_i + 1}
    /\ target_i' \in {target_i, target_i + 1}

C18_RunsNeverOverlap == []C18_OneRunAtATime /\ [][C18_RunsInSequence]_vars

\* C18 witness: run_preset, after a sweep of two points, is in its third open-loop
\* run with a request in flight.
C18_Witness ==
    /\ args.fn = "run_preset"
    /\ preset_pc = "open_await"
    /\ Len(results) = 2
    /\ target_i = 2
    /\ runner_pc = "measured"
    /\ Executing # {}

\* C19: open-loop dispatch follows the schedule clock. next_scheduled_time is always
\* loop-entry time + (number dispatched) / R; a request is dispatched only when the time
\* has reached next_scheduled_time and the elapsed time is below D, so request k (from
\* 0) is never dispatched before start + k / R and none once elapsed >= D; the schedule
\* moves only by a dispatch, one interval at a time, so a late arrival is not skipped.
C19_ScheduleClock ==
    InOpenRun =>
        /\ next_scheduled_time.d > 0
        /\ next_scheduled_time.n * once.target_rps.n
               = next_scheduled_time.d
                     * (start_time * once.target_rps.n
                        + Len(task) * TicksPerSec * once.target_rps.d)

C19_DispatchOnSchedule ==
    InOpenRun =>
        /\ Len(task') > Len(task) =>
               /\ task' = Append(task, NewTask)
               /\ Len(task) * TicksPerSec * once.target_rps.d
                      <= (now - start_time) * once.target_rps.n
               /\ now - start_time < once.duration_sec
               /\ now' = now
        /\ (once' = once /\ next_scheduled_time' # next_scheduled_time) =>
               Len(task') = Len(task) + 1

C19_DispatchFollowsSchedule == []C19_ScheduleClock /\ [][C19_DispatchOnSchedule]_vars

\* C19 witness: a request has just been dispatched after its scheduled time (request
\* k >= 1 at a time later than start + k / R), within the duration.
C19_Witness ==
    /\ InOpenRun /\ once_pc = "loop"
    /\ ~DurationOver
    /\ Len(task) >= 2
    /\ task[Len(task)].st = "new"
    /\ (Len(task) - 1) * TicksPerSec * once.target_rps.d
           < (now - start_time) * once.target_rps.n

Pending == {i \in DOMAIN task : task[i].st \in {"new", "waiting", "granted"}}

\* C20: if every request eventually returns and the clock advances, a closed-loop run
\* eventually returns its summary, an open-loop run eventually leaves the dispatch
\* loop, drains and returns its summary, and every dispatched request eventually has a
\* concurrency slot (requests without one do not stay so forever).
C20_LeavesLoopByDraining ==
    (once.fn = "_open_once" /\ once_pc' # once_pc) =>
        /\ once_pc = "loop" => once_pc' \in {"sleep", "drain", "ret"}
        /\ once_pc' = "ret" =>
               \/ once_pc = "drain" /\ AllDone(gathered)
               \/ once_pc = "loop" /\ in_flight_tasks = {}
C20_RunsComplete ==
    /\ (once_pc \in {"gather", "loop", "sleep", "drain"}) ~> (once_pc = "ret")
    /\ (Pending # {}) ~> (Pending = {})
    /\ [][C20_LeavesLoopByDraining]_vars

\* C20 witness: an open-loop run that reached its in-flight limit has drained and
\* returned its summary.
C20_Witness ==
    /\ once.fn = "_open_once" /\ once_pc = "ret"
    /\ gathered # {}
    /\ Len(task) > InFlightFactor * once.concurrency_cap
    /\ \A i \in DOMAIN task : task[i].st = "done"

\* connections the client holds, requests inside one_request
ReqOpenConnections == IF req.conn \in {"opening", "open"} THEN 1 ELSE 0
ReqExecuting == IF req.pc \in {"connect", "drain", "read", "wait_closed"} THEN 1 ELSE 0

\* C21: when one_request has returned, on success and on every failure path, the
\* connection it opened has been closed by the client, and the number of open client
\* connections never exceeds the number of requests executing.
C21_ConnectionClosedAtReturn ==
    req.fn = "one_request" =>
        /\ req.pc = "returned" => req.conn \in {"none", "closed"}
        /\ ReqOpenConnections <= ReqExecuting

\* the report as it has to be when the sweep rows and the rows of the first n
\* open-loop targets are written
ReportUpTo(n) ==
    [k \in 1..(Len(args.concurrencies) + n) |->
        IF k <= Len(args.concurrencies)
        THEN [phase |-> "closed_sweep", concurrency |-> args.concurrencies[k],
              open_target_rps |-> None, summary |-> results[k].summary]
        ELSE [phase |-> "open_loop", concurrency |-> concurrency_cap,
              open_target_rps |-> open_targets_rps[k - Len(args.concurrencies)],
              summary |-> rows[k].summary]]

\* C22, the rows: once the sweep of m points has returned its results the report holds
\* m rows tagged "closed_sweep" in sweep order, then one row tagged "open_loop" for
\* each target whose run has finished, in target order; run_preset returns a report of
\* m + 3 rows.
C22_Report ==
    args.fn = "run_preset" =>
        /\ preset_pc = "sweep" => rows = <<>>
        /\ preset_pc \in {"open_for", "open_await", "ret"} =>
               /\ Len(open_targets_rps) = 3
               /\ target_i <= 3
               /\ rows = ReportUpTo(target_i)
               /\ preset_pc = "ret" => target_i = 3
        /\ status = "returned" =>
               /\ ret = ReportUpTo(3)
               /\ Len(ret) = Len(args.concurrencies) + 3

\* C22, the order of writing: the sweep rows are written together when run_sweep has
\* returned; an open-loop row is appended when the run_open of its target has returned
\* its summary, which is the row's summary, and the run of the next target is started
\* only with the rows of all targets before it written.
C22_RowWritten ==
    args.fn = "run_preset" =>
        /\ rows' # rows =>
               \/ /\ rows = <<>>
                  /\ preset_pc = "sweep" /\ sweep_pc = "ret"
                  /\ Len(rows') = Len(args.concurrencies)
               \/ /\ preset_pc = "open_await" /\ runner_pc = "ret"
                  /\ runner.fn = "run_open"
                  /\ runner.rps = open_targets_rps[target_i + 1]
                  /\ rows' = Append(rows, OpenRow(concurrency_cap, runner.rps, runner_ret))
                  /\ runner_pc' = "idle"
        /\ (runner_pc # "call" /\ runner_pc' = "call" /\ runner'.fn = "run_open") =>
               /\ runner_pc = "idle"
               /\ Len(rows) = Len(args.concurrencies) + target_i
               /\ runner'.rps = open_targets_rps[target_i + 1]

\* C22: run_preset emits one row per sweep point followed by one row per open-loop
\* target, each open-loop row after its target's run and before the next target's run.
C22_OneRowPerPointThenPerTarget == []C22_Report /\ [][C22_RowWritten]_vars

\* C22 witness: run_preset has returned a report for the sweep <<801, 1>>: two sweep
\* rows in that order, then three open-loop rows, with a success in a sweep run and in
\* an open-loop run.
C22_Witness ==
    /\ args.fn = "run_preset"
    /\ status = "returned"
    /\ args.concurrencies = <<801, 1>>
    /\ Len(ret) = 5
    /\ ret[1].concurrency = 801 /\ ret[2].concurrency = 1
    /\ \E k \in 1..2 : RatLess(RatZero, ret[k].summary.throughput)
    /\ \E k \in 3..5 : RatLess(RatZero, ret[k].summary.throughput)
    /\ RatLess(ret[3].open_target_rps, ret[5].open_target_rps)

====
